---------------------------- MODULE Spec2Model ----------------------------
(***************************************************************************)
(* E91 QKD simulator API (qiskit_api.py): the three request handlers       *)
(* run_chsh, run_keygen and run_eve_attack, driven against a simulator     *)
(* whose run() either raises or returns outcome counts.                    *)
(*                                                                         *)
(* Real numbers are exact rationals [n |-> numerator, d |-> denominator]   *)
(* (d > 0); round(x, 4) yields a rational over 10000.  Angles are in       *)
(* tenths of a degree, probabilities and random draws in tenths.           *)
(***************************************************************************)
EXTENDS Integers, Sequences, FiniteSets, TLC

(* ------------------------------ bounds --------------------------------- *)
MaxShots == 3
MaxCount == 2
TestShots == 100
BigShots == 40002

(* ------------------------------ inputs --------------------------------- *)
\* req.shots: any int passes the request model (shots: int)
ShotsSet == {-1, 0} \cup (1..MaxShots) \cup {TestShots, BigShots}
\* req.count: any int passes the request model (count: int)
CountSet == -1..MaxCount
\* req.intercept_prob in tenths: 0.0, 0.5, 1.0, 1.5
ProbSet == {0, 5, 10, 15}
\* np.random.random() lies in [0, 1): representatives 0.0 and 0.9, in tenths
RandomSet == {0, 9}

\* outcome labels as character sequences: Python label[0] is <<..>>[1] (qubit 1),
\* Python label[1] is <<..>>[2] (qubit 0)
L00 == <<"0", "0">>
L01 == <<"0", "1">>
L10 == <<"1", "0">>
L11 == <<"1", "1">>
Labels == {L00, L01, L10, L11}

(* --------------------------- rational numbers -------------------------- *)
\* a / b for b # 0, as Python's float division
Rat(a, b) == IF b < 0 THEN [n |-> -a, d |-> -b] ELSE [n |-> a, d |-> b]

RatOf(k) == [n |-> k, d |-> 1]

RatEq(a, b) == IF a.d = b.d THEN a.n = b.n ELSE a.n * b.d = b.n * a.d

RatGt(a, b) == IF a.d = b.d THEN a.n > b.n ELSE a.n * b.d > b.n * a.d

RatNeg(a) == [n |-> -a.n, d |-> a.d]

RatAdd(a, b) ==
    IF a.d = b.d THEN [n |-> a.n + b.n, d |-> a.d]
    ELSE [n |-> a.n * b.d + b.n * a.d, d |-> a.d * b.d]

RatSub(a, b) == RatAdd(a, RatNeg(b))

\* abs(x)
RatAbs(a) == IF a.n < 0 THEN RatNeg(a) ELSE a

\* nearest integer to m / d (m >= 0, d > 0), ties to the even neighbour
RoundHalfEven(m, d) ==
    LET q == m \div d
        rem == m % d
    IN  IF 2 * rem < d THEN q
        ELSE IF 2 * rem > d THEN q + 1
        ELSE IF q % 2 = 0 THEN q ELSE q + 1

\* round(x, 4)
Round4(a) ==
    IF a.n < 0 THEN [n |-> -RoundHalfEven((-a.n) * 10000, a.d), d |-> 10000]
    ELSE [n |-> RoundHalfEven(a.n * 10000, a.d), d |-> 10000]

(* ------------------------------ circuits ------------------------------- *)
\* theta in tenths of a degree; ry holds the rotation -2 * theta
NoCircuit == [prep |-> "none", x0 |-> FALSE, x1 |-> FALSE, ry0 |-> 0, ry1 |-> 0]

\* the four CHSH angle pairs (theta_a, theta_b)
pairs == << <<0, 225>>, <<0, 675>>, <<450, 225>>, <<450, 675>> >>

basis_opts_a == {0, 45, 90}
basis_opts_b == {45, 90, 135}
eve_opts == {0, 45, 90}

\* h(0); cx(0,1); ry(-2 theta_a, 0); ry(-2 theta_b, 1); measure both
ChshCircuit(theta_a, theta_b) ==
    [prep |-> "bell", x0 |-> FALSE, x1 |-> FALSE,
     ry0 |-> -2 * theta_a, ry1 |-> -2 * theta_b]

(* --------------------------- outcome counts ---------------------------- *)
ZeroCounts == [l \in Labels |-> 0]

OneLabel(s, l) == [m \in Labels |-> IF m = l THEN s ELSE 0]

Split(s, l1, l2, k) ==
    [m \in Labels |-> IF m = l1 THEN k ELSE IF m = l2 THEN s - k ELSE 0]

\* counts a run of s shots may return: they sum to s (none for s <= 0);
\* every shot on one label, an even split of the differing labels, and a
\* single "00" among "01"
Batches(s) ==
    IF s <= 0 THEN {ZeroCounts}
    ELSE {OneLabel(s, l) : l \in Labels}
         \cup {Split(s, L01, L10, s \div 2)}
         \cup {Split(s, L00, L01, 1)}

\* counts.get(l, 0)
Get(counts, l) == counts[l]

\* list(counts.keys())[0] of a single-shot run: the one observed label
FirstKey(counts) == CHOOSE l \in Labels : counts[l] > 0

\* int(c) of a label character
IntOf(c) == IF c = "1" THEN 1 ELSE 0

\* corr = (n_same - n_diff) / req.shots
Correlation(counts, s) ==
    LET n_same == Get(counts, L00) + Get(counts, L11)
        n_diff == Get(counts, L01) + Get(counts, L10)
    IN  Rat(n_same - n_diff, s)

\* run_chsh: correlations.append(round(corr, 4))
ChshCorrelation(counts, s) == Round4(Correlation(counts, s))

\* run_eve_attack: correlations.append(corr)
AttackCorrelation(counts, s) == Correlation(counts, s)

\* abs(c[0] - c[1] + c[2] + c[3]), Python indices
ChshS(c) == RatAbs(RatAdd(RatAdd(RatSub(c[1], c[2]), c[3]), c[4]))

(* ------------------------------- state --------------------------------- *)
VARIABLES
    op,             \* endpoint being served: "none", "chsh", "keygen", "attack"
    shots,          \* req.shots
    count,          \* req.count
    intercept_prob, \* req.intercept_prob, tenths
    pc,             \* position in the handler
    k,              \* 1-based index of the current loop iteration
    exc,            \* exception that ended the handler, or "none"
    correlations,   \* local list of run_chsh / run_eve_attack
    alice_bases, bob_bases, raw_bits_a, raw_bits_b,   \* locals of run_keygen
    qc,             \* circuit built last
    r,              \* value of the last np.random.random(), tenths
    eve_result,     \* Eve's outcome label of the last interception
    calls,          \* number of simulator.run calls made
    lastrun,        \* arguments and result of the last simulator.run
    batches,        \* counts returned by the runs of req.shots shots, in order
    draws,          \* number of np.random.random() calls made
    eve_draws,      \* number of draws of Eve's basis made
    n_intercepts,   \* number of angle pairs that took the intercept branch
    s_value,        \* local s_value, before the result's rounding
    result          \* the response record, or NoResult

vars == <<op, shots, count, intercept_prob, pc, k, exc, correlations,
          alice_bases, bob_bases, raw_bits_a, raw_bits_b, qc, r, eve_result,
          calls, lastrun, batches, draws, eve_draws, n_intercepts, s_value,
          result>>

reqVars == <<op, shots, count, intercept_prob>>
keyVars == <<alice_bases, bob_bases, raw_bits_a, raw_bits_b>>
eveVars == <<r, eve_result, draws, eve_draws, n_intercepts>>

NoResult == [kind |-> "none"]
NoRun == [qc |-> NoCircuit, shots |-> 0, raised |-> FALSE, out |-> ZeroCounts]

\* record of a simulator.run(c, shots=s) call that returned counts
Ran(c, s, counts) == [qc |-> c, shots |-> s, raised |-> FALSE, out |-> counts]

\* record of a simulator.run(c, shots=s) call that raised
Raised(c, s) == [qc |-> c, shots |-> s, raised |-> TRUE, out |-> ZeroCounts]

Init ==
    /\ op = "none" /\ shots = 0 /\ count = 0 /\ intercept_prob = 0
    /\ pc = "idle" /\ k = 1 /\ exc = "none"
    /\ correlations = <<>>
    /\ alice_bases = <<>> /\ bob_bases = <<>>
    /\ raw_bits_a = <<>> /\ raw_bits_b = <<>>
    /\ qc = NoCircuit /\ r = 0 /\ eve_result = <<>>
    /\ calls = 0 /\ lastrun = NoRun /\ batches = <<>>
    /\ draws = 0 /\ eve_draws = 0 /\ n_intercepts = 0
    /\ s_value = RatOf(0) /\ result = NoResult

(* ------------------------- POST /api/phase1/chsh ----------------------- *)
PostChsh ==
    /\ pc = "idle"
    /\ \E s \in ShotsSet : shots' = s
    /\ op' = "chsh" /\ pc' = "chsh_loop"
    /\ UNCHANGED <<count, intercept_prob, k, exc, correlations, keyVars, qc,
                   eveVars, calls, lastrun, batches, s_value, result>>

\* one iteration of the loop over pairs: build, run, correlate
ChshIter ==
    /\ pc = "chsh_loop"
    /\ LET c == ChshCircuit(pairs[k][1], pairs[k][2]) IN
       /\ qc' = c
       /\ calls' = calls + 1
       /\ \E counts \in Batches(shots) :
            /\ lastrun' = Ran(c, shots, counts)
            /\ batches' = Append(batches, counts)
            /\ IF shots = 0
               THEN /\ pc' = "error" /\ exc' = "ZeroDivisionError"
                    /\ UNCHANGED <<correlations, k>>
               ELSE /\ correlations' =
                          Append(correlations, ChshCorrelation(counts, shots))
                    /\ k' = k + 1
                    /\ pc' = IF k = Len(pairs) THEN "chsh_ret" ELSE "chsh_loop"
                    /\ exc' = exc
    /\ UNCHANGED <<reqVars, keyVars, eveVars, s_value, result>>

\* variant: the failure is caught and a result built from what completed
ChshSimFails_Swallowed ==
    /\ pc = "chsh_loop"
    /\ qc' = ChshCircuit(pairs[k][1], pairs[k][2])
    /\ calls' = calls + 1
    /\ lastrun' = Raised(qc', shots)
    /\ result' = [kind |-> "chsh", s_value |-> RatOf(0),
                  correlations |-> correlations, verdict |-> FALSE]
    /\ pc' = "done"
    /\ UNCHANGED <<reqVars, k, exc, correlations, keyVars, eveVars, batches,
                   s_value>>

\* simulator.run raises: nothing catches it
ChshSimFails ==
    /\ pc = "chsh_loop"
    /\ qc' = ChshCircuit(pairs[k][1], pairs[k][2])
    /\ calls' = calls + 1
    /\ lastrun' = Raised(qc', shots)
    /\ pc' = "error" /\ exc' = "RuntimeError"
    /\ UNCHANGED <<reqVars, k, correlations, keyVars, eveVars, batches,
                   s_value, result>>

\* "violation": s_value > 2.0
Violation(s) == RatGt(s, RatOf(2))

\* the response of run_chsh for the list c of correlations
ChshResult(c) ==
    [kind |-> "chsh", s_value |-> Round4(ChshS(c)), correlations |-> c,
     verdict |-> Violation(ChshS(c))]

ChshReturn ==
    /\ pc = "chsh_ret"
    /\ s_value' = ChshS(correlations)
    /\ result' = ChshResult(correlations)
    /\ pc' = "done"
    /\ UNCHANGED <<reqVars, k, exc, correlations, keyVars, qc, eveVars, calls,
                   lastrun, batches>>

(* ------------------------ POST /api/phase2/keygen ---------------------- *)
KeygenCircuit(b_a, b_b) ==
    [prep |-> "bell", x0 |-> FALSE, x1 |-> FALSE,
     ry0 |-> -2 * (b_a * 10), ry1 |-> -2 * (b_b * 10)]

\* variant: Alice's bit read from the leftmost character
BitA_Swapped(res) == IntOf(res[1])

\* bit_a = int(res[1]): qubit 0, the rightmost character
BitA(res) == IntOf(res[2])

\* bit_b = int(res[0]): qubit 1, the leftmost character
BitB(res) == IntOf(res[1])

PostKeygen ==
    /\ pc = "idle"
    /\ \E c \in CountSet : count' = c
    /\ op' = "keygen" /\ pc' = "keygen_loop"
    /\ UNCHANGED <<shots, intercept_prob, k, exc, correlations, keyVars, qc,
                   eveVars, calls, lastrun, batches, s_value, result>>

\* one iteration of for _ in range(req.count)
KeygenIter ==
    /\ pc = "keygen_loop"
    /\ k <= count
    /\ \E b_a \in basis_opts_a, b_b \in basis_opts_b, counts \in Batches(1) :
         LET c == KeygenCircuit(b_a, b_b)
             res == FirstKey(counts)
         IN  /\ qc' = c
             /\ lastrun' = Ran(c, 1, counts)
             /\ alice_bases' = Append(alice_bases, b_a)
             /\ bob_bases' = Append(bob_bases, b_b)
             /\ raw_bits_a' = Append(raw_bits_a, BitA(res))
             /\ raw_bits_b' = Append(raw_bits_b, BitB(res))
    /\ calls' = calls + 1
    /\ k' = k + 1
    /\ UNCHANGED <<reqVars, pc, exc, correlations, eveVars, batches, s_value,
                   result>>

KeygenSimFails ==
    /\ pc = "keygen_loop"
    /\ k <= count
    /\ \E b_a \in basis_opts_a, b_b \in basis_opts_b :
         /\ qc' = KeygenCircuit(b_a, b_b)
         /\ lastrun' = Raised(qc', 1)
    /\ calls' = calls + 1
    /\ pc' = "error" /\ exc' = "RuntimeError"
    /\ UNCHANGED <<reqVars, k, correlations, keyVars, eveVars, batches,
                   s_value, result>>

\* range(req.count) is exhausted (at once when req.count <= 0)
KeygenReturn ==
    /\ pc = "keygen_loop"
    /\ k > count
    /\ result' = [kind |-> "keygen",
                  alice_bases |-> alice_bases, bob_bases |-> bob_bases,
                  raw_bits_a |-> raw_bits_a, raw_bits_b |-> raw_bits_b]
    /\ pc' = "done"
    /\ UNCHANGED <<reqVars, k, exc, correlations, keyVars, qc, eveVars, calls,
                   lastrun, batches, s_value>>

(* ------------------------ POST /api/phase3/attack ---------------------- *)
\* variant: the draw compared with <=
Intercepts_OrEqual(rv, p) == rv <= p

\* np.random.random() < req.intercept_prob
Intercepts(rv, p) == rv < p

\* Eve's circuit: Bell pair, both qubits rotated to eve_angle, measured
EveCircuit(eve_angle) ==
    [prep |-> "bell", x0 |-> FALSE, x1 |-> FALSE,
     ry0 |-> -2 * (eve_angle * 10), ry1 |-> -2 * (eve_angle * 10)]

\* variant: the two characters of Eve's outcome exchanged
ResendCircuit_Swapped(eve_res, theta_a, theta_b) ==
    [prep |-> "zero", x0 |-> (eve_res[1] = "1"), x1 |-> (eve_res[2] = "1"),
     ry0 |-> -2 * theta_a, ry1 |-> -2 * theta_b]

\* the resent circuit: fresh |00>, x(0) if eve_result[1] == '1',
\* x(1) if eve_result[0] == '1', then Alice's and Bob's rotations
ResendCircuit(eve_res, theta_a, theta_b) ==
    [prep |-> "zero", x0 |-> (eve_res[2] = "1"), x1 |-> (eve_res[1] = "1"),
     ry0 |-> -2 * theta_a, ry1 |-> -2 * theta_b]

\* the else branch: the CHSH circuit
PlainCircuit(theta_a, theta_b) ==
    [prep |-> "bell", x0 |-> FALSE, x1 |-> FALSE,
     ry0 |-> -2 * theta_a, ry1 |-> -2 * theta_b]

\* variant: the verdict taken with >=
Secure_AtLeast(s) == ~RatGt(RatOf(2), s)

\* variant: the verdict taken on the rounded value
Secure_OfRounded(s) == RatGt(Round4(s), RatOf(2))

\* "is_secure": s_value > 2.0
Secure(s) == RatGt(s, RatOf(2))

\* the response of run_eve_attack for the list c of correlations
AttackResult(c, p) ==
    [kind |-> "attack", s_value |-> Round4(ChshS(c)), correlations |-> c,
     verdict |-> Secure(ChshS(c)), eve_active |-> (p > 0)]

\* variant: Eve's basis drawn once per repetition
EveDrawsPerShot(s) == s

\* np.random.choice([0, 45, 90]) is called once in an intercepted iteration,
\* whatever req.shots is
EveDrawsPerPair(s) == 1

PostAttack ==
    /\ pc = "idle"
    /\ \E s \in ShotsSet : shots' = s
    /\ \E p \in ProbSet : intercept_prob' = p
    /\ op' = "attack" /\ pc' = "attack_loop"
    /\ UNCHANGED <<count, k, exc, correlations, keyVars, qc, eveVars, calls,
                   lastrun, batches, s_value, result>>

\* top of an iteration, draw below the probability: Eve measures (one shot)
\* and the resent circuit is built
AttackIntercept ==
    /\ pc = "attack_loop"
    /\ \E rv \in RandomSet :
         /\ Intercepts(rv, intercept_prob)
         /\ r' = rv
    /\ draws' = draws + 1
    /\ n_intercepts' = n_intercepts + 1
    /\ eve_draws' = eve_draws + EveDrawsPerPair(shots)
    /\ calls' = calls + 1
    /\ \E eve_angle \in eve_opts, counts \in Batches(1) :
         /\ lastrun' = Ran(EveCircuit(eve_angle), 1, counts)
         /\ eve_result' = FirstKey(counts)
         /\ qc' = ResendCircuit(FirstKey(counts), pairs[k][1], pairs[k][2])
    /\ pc' = "attack_run"
    /\ UNCHANGED <<reqVars, k, exc, correlations, keyVars, batches, s_value,
                   result>>

\* as AttackIntercept, but Eve's single-shot run raises
AttackEveFails ==
    /\ pc = "attack_loop"
    /\ \E rv \in RandomSet :
         /\ Intercepts(rv, intercept_prob)
         /\ r' = rv
    /\ draws' = draws + 1
    /\ n_intercepts' = n_intercepts + 1
    /\ eve_draws' = eve_draws + EveDrawsPerPair(shots)
    /\ calls' = calls + 1
    /\ \E eve_angle \in eve_opts :
         /\ qc' = EveCircuit(eve_angle)
         /\ lastrun' = Raised(qc', 1)
    /\ pc' = "error" /\ exc' = "RuntimeError"
    /\ UNCHANGED <<reqVars, k, correlations, keyVars, eve_result, batches,
                   s_value, result>>

\* top of an iteration, draw not below the probability: the plain circuit
AttackPlain ==
    /\ pc = "attack_loop"
    /\ \E rv \in RandomSet :
         /\ ~Intercepts(rv, intercept_prob)
         /\ r' = rv
    /\ draws' = draws + 1
    /\ qc' = PlainCircuit(pairs[k][1], pairs[k][2])
    /\ pc' = "attack_run"
    /\ UNCHANGED <<reqVars, k, exc, correlations, keyVars, eve_result, calls,
                   lastrun, batches, eve_draws, n_intercepts, s_value, result>>

\* the batch run of the circuit just built, and its correlation
AttackRun ==
    /\ pc = "attack_run"
    /\ calls' = calls + 1
    /\ \E counts \in Batches(shots) :
         /\ lastrun' = Ran(qc, shots, counts)
         /\ batches' = Append(batches, counts)
         /\ IF shots = 0
            THEN /\ pc' = "error" /\ exc' = "ZeroDivisionError"
                 /\ UNCHANGED <<correlations, k>>
            ELSE /\ correlations' =
                       Append(correlations, AttackCorrelation(counts, shots))
                 /\ k' = k + 1
                 /\ pc' = IF k = Len(pairs) THEN "attack_ret" ELSE "attack_loop"
                 /\ exc' = exc
    /\ UNCHANGED <<reqVars, keyVars, qc, eveVars, s_value, result>>

AttackSimFails ==
    /\ pc = "attack_run"
    /\ calls' = calls + 1
    /\ lastrun' = Raised(qc, shots)
    /\ pc' = "error" /\ exc' = "RuntimeError"
    /\ UNCHANGED <<reqVars, k, correlations, keyVars, qc, eveVars, batches,
                   s_value, result>>

AttackReturn ==
    /\ pc = "attack_ret"
    /\ s_value' = ChshS(correlations)
    /\ result' = AttackResult(correlations, intercept_prob)
    /\ pc' = "done"
    /\ UNCHANGED <<reqVars, k, exc, correlations, keyVars, qc, eveVars, calls,
                   lastrun, batches>>

Next ==
    \/ PostChsh
    \/ ChshIter
    \/ ChshSimFails
    \/ ChshReturn
    \/ PostKeygen
    \/ KeygenIter
    \/ KeygenSimFails
    \/ KeygenReturn
    \/ PostAttack
    \/ AttackIntercept
    \/ AttackEveFails
    \/ AttackPlain
    \/ AttackRun
    \/ AttackSimFails
    \/ AttackReturn

Spec == Init /\ [][Next]_vars

(* ------------------------------ properties ----------------------------- *)
Abs(x) == IF x < 0 THEN -x ELSE x

\* (n00 + n11 - n01 - n10) / s, written out on the counts
ExactE(counts, s) ==
    [n |-> counts[L00] + counts[L11] - counts[L01] - counts[L10], d |-> s]

\* |E1 - E2 + E3 + E4| for four rationals over the same denominator
ExactS(e) == [n |-> Abs(e[1].n - e[2].n + e[3].n + e[4].n), d |-> e[1].d]

Balanced == [l \in Labels |-> IF l \in {L01, L10} THEN 50 ELSE 0]

ServedOk(o) == op = o /\ pc = "done" /\ shots >= 1

\* C1: CHSH verification reports, for every shots >= 1 and every four batches,
\* the exact correlations (n00 + n11 - n01 - n10) / shots, s_value equal to
\* |E1 - E2 + E3 + E4| of them, and violation exactly when that S exceeds 2.
C1_ChshReportsExactCorrelations ==
    ServedOk("chsh") =>
        LET e == [i \in 1..4 |-> ExactE(batches[i], shots)]
        IN  /\ \A i \in 1..4 : RatEq(result.correlations[i], e[i])
            /\ RatEq(result.s_value, ExactS(e))
            /\ result.verdict = RatGt(ExactS(e), RatOf(2))

\* after j iterations: j entries in each list, j runs, and the j-th entries
\* are the bases and the outcome of the run just made
C2_Positions ==
    (op = "keygen" /\ pc \in {"keygen_loop", "done"}) =>
        /\ Len(alice_bases) = k - 1 /\ Len(bob_bases) = k - 1
        /\ Len(raw_bits_a) = k - 1 /\ Len(raw_bits_b) = k - 1
        /\ calls = k - 1
        /\ k > 1 =>
             /\ lastrun.shots = 1
             /\ lastrun.qc.prep = "bell"
             /\ lastrun.qc.ry0 = -20 * alice_bases[k - 1]
             /\ lastrun.qc.ry1 = -20 * bob_bases[k - 1]
             /\ (raw_bits_a[k - 1] = 1) <=> (lastrun.out[L01] + lastrun.out[L11] = 1)
             /\ (raw_bits_a[k - 1] = 0) <=> (lastrun.out[L00] + lastrun.out[L10] = 1)
             /\ (raw_bits_b[k - 1] = 1) <=> (lastrun.out[L10] + lastrun.out[L11] = 1)
             /\ (raw_bits_b[k - 1] = 0) <=> (lastrun.out[L00] + lastrun.out[L01] = 1)

\* the response holds the four lists, each of length count and in range
C2_Result ==
    (op = "keygen" /\ pc = "done" /\ count >= 1) =>
        /\ result.kind = "keygen"
        /\ Len(result.alice_bases) = count /\ Len(result.bob_bases) = count
        /\ Len(result.raw_bits_a) = count /\ Len(result.raw_bits_b) = count
        /\ \A j \in 1..count :
             /\ result.raw_bits_a[j] \in {0, 1} /\ result.raw_bits_b[j] \in {0, 1}
             /\ result.alice_bases[j] \in {0, 45, 90}
             /\ result.bob_bases[j] \in {45, 90, 135}
        /\ result.alice_bases = alice_bases /\ result.bob_bases = bob_bases
        /\ result.raw_bits_a = raw_bits_a /\ result.raw_bits_b = raw_bits_b
        /\ calls = count

\* positions already written are never rewritten
C2_AppendOnly ==
    (op = "keygen" /\ op' = "keygen") =>
        /\ SubSeq(alice_bases', 1, Len(alice_bases)) = alice_bases
        /\ SubSeq(bob_bases', 1, Len(bob_bases)) = bob_bases
        /\ SubSeq(raw_bits_a', 1, Len(raw_bits_a)) = raw_bits_a
        /\ SubSeq(raw_bits_b', 1, Len(raw_bits_b)) = raw_bits_b

\* C2: key generation with count >= 1 returns four sequences of length count,
\* bits in {0, 1}, Alice's bases in {0, 45, 90}, Bob's in {45, 90, 135}; the
\* entries at position j are the bases and the outcome of the j-th single-shot
\* run, one simulator run per position.
C2_KeyGeneration == [](C2_Positions /\ C2_Result) /\ [][C2_AppendOnly]_vars

C2_Witness ==
    /\ op = "keygen" /\ pc = "done" /\ count = 2
    /\ result.alice_bases = <<0, 90>> /\ result.bob_bases = <<135, 45>>
    /\ result.raw_bits_a = <<1, 0>> /\ result.raw_bits_b = <<0, 0>>

\* C3: the eavesdropper attack with intercept_probability = 0.0 never takes
\* the intercept branch and reports the correlations, s_value and verdict
\* that CHSH verification reports for the same four batches.
C3_AttackAtZeroReproducesChsh ==
    (ServedOk("attack") /\ intercept_prob = 0) =>
        LET chsh == ChshResult([i \in 1..4 |-> ChshCorrelation(batches[i], shots)])
        IN  /\ n_intercepts = 0
            /\ \A i \in 1..4 : RatEq(result.correlations[i], chsh.correlations[i])
            /\ RatEq(result.s_value, chsh.s_value)
            /\ result.verdict = chsh.verdict

\* shots <= 0, count <= 0, or intercept_prob outside [0, 1]
InvalidInput ==
    \/ op \in {"chsh", "attack"} /\ shots <= 0
    \/ op = "keygen" /\ count <= 0
    \/ op = "attack" /\ (intercept_prob < 0 \/ intercept_prob > 10)

\* C4: invalid input (shots <= 0, count <= 0, intercept_probability outside
\* [0, 1]) ends in an invalid-argument error before any circuit is run and
\* never yields a result record.
C4_InvalidInputRejected ==
    InvalidInput =>
        /\ calls = 0
        /\ result = NoResult
        /\ pc # "done"
        /\ exc \in {"none", "InvalidArgument"}

\* C5: the attack with intercept_probability = 1.0, shots = 100 and the
\* balanced counts {01: 50, 10: 50} for every pair takes the intercept branch
\* for all four pairs and reports correlation -1 for each, S = 2.0 and
\* is_secure = false.
C5_BalancedAttack ==
    (op = "attack" /\ pc = "done" /\ shots = TestShots /\ intercept_prob = 10
        /\ \A i \in 1..4 : batches[i] = Balanced) =>
        /\ n_intercepts = 4
        /\ \A i \in 1..4 : RatEq(result.correlations[i], RatOf(-1))
        /\ RatEq(result.s_value, RatOf(2))
        /\ result.verdict = FALSE

C5_Witness ==
    /\ op = "attack" /\ pc = "done" /\ shots = TestShots /\ intercept_prob = 10
    /\ \A i \in 1..4 : batches[i] = Balanced
    /\ result.kind = "attack"

\* C6: when a call of the simulator's run raises, on the first or on a later
\* circuit, the operation ends in an error and no result record exists; an
\* operation that ended in an error has no result.
C6_FailurePropagates ==
    /\ lastrun.raised => (pc = "error" /\ exc = "RuntimeError" /\ result = NoResult)
    /\ pc = "error" => result = NoResult
    /\ pc = "done" => (~lastrun.raised /\ exc = "none")

C6_Witness ==
    /\ op = "chsh" /\ lastrun.raised /\ calls = 4 /\ Len(correlations) = 3
    /\ pc = "error"

\* C7: the attack makes one Bernoulli draw per angle pair, four per call, each
\* before that pair's batch; the pair's circuit is the intercept-resend shape
\* exactly when its own draw is below intercept_probability, and its shots
\* repetitions are one run of shots shots on that circuit.
C7_OncePerPair ==
    op = "attack" =>
        /\ pc = "attack_loop" => (draws = k - 1 /\ Len(batches) = k - 1)
        /\ pc = "attack_run" =>
             /\ draws = k /\ Len(batches) = k - 1
             /\ (qc.prep = "zero") <=> (r < intercept_prob)
             /\ (qc.prep = "bell") <=> ~(r < intercept_prob)
             /\ qc.ry0 = -2 * pairs[k][1] /\ qc.ry1 = -2 * pairs[k][2]
        /\ (pc \in {"attack_loop", "attack_ret", "done"} /\ k > 1) =>
             /\ lastrun.qc = qc /\ lastrun.shots = shots
             /\ lastrun.out = batches[k - 1]
             /\ calls = (k - 1) + n_intercepts
        /\ pc \in {"attack_ret", "done"} =>
             (draws = 4 /\ Len(batches) = 4 /\ k = 5)

C7_Witness ==
    /\ op = "attack" /\ pc = "done" /\ shots = TestShots /\ intercept_prob = 5
    /\ n_intercepts = 2 /\ qc.prep = "bell" /\ draws = 4

\* C8 as stated: for an intercepted pair Eve's basis is drawn once per
\* repetition, shots draws for the pair.
C8_EveBasisPerRepetition ==
    ServedOk("attack") => eve_draws = n_intercepts * shots

\* C8 amended: Eve's basis is drawn once per intercepted angle pair, with one
\* single-shot run of Eve's circuit; all shots repetitions of that pair are
\* one run of the one resent circuit.
C8_EveBasisPerPair ==
    op = "attack" =>
        /\ eve_draws = n_intercepts
        /\ (pc = "attack_run" /\ r < intercept_prob) =>
             /\ lastrun.shots = 1 /\ lastrun.qc.prep = "bell"
             /\ lastrun.qc.ry0 = lastrun.qc.ry1
             /\ qc.prep = "zero"
        /\ (pc \in {"attack_loop", "attack_ret", "done"} /\ k > 1) =>
             /\ lastrun.qc = qc /\ lastrun.shots = shots
             /\ calls = (k - 1) + n_intercepts

C8_Witness ==
    /\ op = "attack" /\ pc = "done" /\ shots = TestShots
    /\ n_intercepts = 4 /\ eve_draws = 4 /\ calls = 8

\* C9: for an attacked pair the correlation comes from the run of a fresh
\* circuit with no entangling preparation, qubit 0 flipped exactly when the
\* rightmost character of Eve's outcome is 1 and qubit 1 exactly when the
\* leftmost is 1, then rotated by theta_A and theta_B; Eve's outcome only
\* chooses the flips.
C9_ResendOrdering ==
    (op = "attack" /\ r < intercept_prob) =>
        /\ pc = "attack_run" =>
             /\ lastrun.qc.prep = "bell" /\ lastrun.shots = 1
             /\ eve_result \in Labels /\ lastrun.out[eve_result] = 1
             /\ qc.prep = "zero"
             /\ qc.x0 <=> (eve_result \in {L01, L11})
             /\ qc.x1 <=> (eve_result \in {L10, L11})
             /\ qc.ry0 = -2 * pairs[k][1] /\ qc.ry1 = -2 * pairs[k][2]
        /\ (pc \in {"attack_loop", "attack_ret"} /\ k > 1 /\ draws = k - 1) =>
             /\ lastrun.qc = qc /\ qc.prep = "zero"
             /\ qc.x0 <=> (eve_result \in {L01, L11})
             /\ qc.x1 <=> (eve_result \in {L10, L11})
             /\ qc.ry0 = -2 * pairs[k - 1][1] /\ qc.ry1 = -2 * pairs[k - 1][2]
             /\ lastrun.shots = shots
             /\ RatEq(correlations[k - 1], ExactE(lastrun.out, shots))

C9_Witness ==
    /\ op = "attack" /\ pc = "attack_loop" /\ k = 3 /\ r < intercept_prob
    /\ eve_result = L01 /\ qc.x0 /\ ~qc.x1
    /\ shots = TestShots /\ lastrun.out = OneLabel(TestShots, L11)
    /\ RatEq(correlations[2], RatOf(1))

\* C10 as stated: the verdict is true exactly when the returned s_value is
\* greater than 2.0.
C10_VerdictAgreesWithReturned ==
    (ServedOk("chsh") \/ ServedOk("attack")) =>
        (result.verdict <=> RatGt(result.s_value, RatOf(2)))

\* C10 amended: the verdict is true exactly when the s_value computed from the
\* reported correlations, before its rounding to four decimals, is greater
\* than 2.0; the returned s_value is within 0.00005 of it.
C10_VerdictAgreesWithUnrounded ==
    (ServedOk("chsh") \/ ServedOk("attack")) =>
        LET c == result.correlations
            sum == RatAdd(RatAdd(RatSub(c[1], c[2]), c[3]), c[4])
        IN  /\ RatEq(s_value, RatAbs(sum))
            /\ result.verdict <=> (Abs(sum.n) > 2 * sum.d)
            /\ result.s_value.d = 10000
            /\ 2 * Abs(result.s_value.n * s_value.d - s_value.n * 10000) <= s_value.d

C10_Witness ==
    /\ ServedOk("attack")
    /\ result.verdict
    /\ RatEq(result.s_value, RatOf(2))
    /\ RatGt(s_value, RatOf(2))

=============================================================================
